---- MODULE Spec2Model ----
(***************************************************************************)
(* Model of the 1Password audit tool.                                      *)
(*                                                                         *)
(*   gradio/app.py               the analysis engine behind the web form:  *)
(*                               sanitize_json_input, detect_weak_patterns,*)
(*                               run_audit, generate_stats   (Spec)        *)
(*   cli/audit_1password_expert.py   the command line driver: main,        *)
(*                               export_vault, build_audit_prompt,         *)
(*                               save_report                 (SpecCli)     *)
(*                                                                         *)
(* SpecPatterns calls detect_weak_patterns alone, SpecStats runs the engine *)
(* on long and short secrets, SpecReport follows the text of the report.   *)
(*                                                                         *)
(* Python strings that the code inspects character by character (secret    *)
(* values, hashes, weakness tags) are sequences of one-character strings.  *)
(* Strings the code only copies or compares as a whole (ids, type names,   *)
(* messages) are TLA+ strings.  A dict is a function whose DOMAIN is the   *)
(* set of keys present.                                                    *)
(***************************************************************************)
EXTENDS Integers, Sequences, FiniteSets, TLC

\* ------------------------------------------------------------------ bounds

\* Largest number of elements in the top-level JSON array of one input.
MaxItems == 2

\* Largest number of fields over all the items of one input.
MaxFields == 3

\* ------------------------------------------------------------ characters

LowerChars == {"a","b","c","d","e","f","g","h","i","j","k","l","m",
               "n","o","p","q","r","s","t","u","v","w","x","y","z"}

UpperChars == {"A","B","C","D","E","F","G","H","I","J","K","L","M",
               "N","O","P","Q","R","S","T","U","V","W","X","Y","Z"}

DigitChars == {"0","1","2","3","4","5","6","7","8","9"}

\* str.lower() on one character.
LowerOf == [c \in UpperChars |->
              CASE c = "A" -> "a" [] c = "B" -> "b" [] c = "C" -> "c" [] c = "D" -> "d"
                [] c = "E" -> "e" [] c = "F" -> "f" [] c = "G" -> "g" [] c = "H" -> "h"
                [] c = "I" -> "i" [] c = "J" -> "j" [] c = "K" -> "k" [] c = "L" -> "l"
                [] c = "M" -> "m" [] c = "N" -> "n" [] c = "O" -> "o" [] c = "P" -> "p"
                [] c = "Q" -> "q" [] c = "R" -> "r" [] c = "S" -> "s" [] c = "T" -> "t"
                [] c = "U" -> "u" [] c = "V" -> "v" [] c = "W" -> "w" [] c = "X" -> "x"
                [] c = "Y" -> "y" [] c = "Z" -> "z"]

\* password.lower()
Lower(s) == [i \in 1..Len(s) |-> IF s[i] \in UpperChars THEN LowerOf[s[i]] ELSE s[i]]

\* `sub in s` on Python strings.
Contains(s, sub) ==
    \E i \in 1..(Len(s) - Len(sub) + 1) : SubSeq(s, i, i + Len(sub) - 1) = sub

\* -------------------------------------------------- detect_weak_patterns

sequences == << <<"1","2","3">>, <<"2","3","4">>, <<"3","4","5">>, <<"4","5","6">>,
                <<"5","6","7">>, <<"6","7","8">>, <<"7","8","9">>, <<"8","9","0">>,
                <<"a","b","c">>, <<"b","c","d">>, <<"c","d","e">>, <<"d","e","f">>,
                <<"q","w","e","r","t","y">>, <<"a","s","d","f">> >>

weak_words == << <<"p","a","s","s","w","o","r","d">>, <<"a","d","m","i","n">>,
                 <<"r","o","o","t">>, <<"s","e","c","r","e","t">>,
                 <<"l","o","g","i","n">>, <<"u","s","e","r">>, <<"t","e","s","t">> >>

\* f"sequência '{seq}'"   (the accented letter is written e)
SeqTag(seq) == <<"s","e","q","u","e","n","c","i","a"," ","'">> \o seq \o <<"'">>

\* f"ano {years[0]}"
YearTag(y) == <<"a","n","o"," ">> \o y

\* f"palavra '{word}'"
WordTag(word) == <<"p","a","l","a","v","r","a"," ","'">> \o word \o <<"'">>

RepeatTag == <<"c","a","r","a","c","t","e","r","e","s"," ",
               "r","e","p","e","t","i","d","o","s">>

\* The regular expression 20[12][0-9]|19[89][0-9] matching at position i.
YearAt(s, i) ==
    /\ i + 3 <= Len(s)
    /\ \/ s[i] = "2" /\ s[i+1] = "0" /\ s[i+2] \in {"1","2"} /\ s[i+3] \in DigitChars
       \/ s[i] = "1" /\ s[i+1] = "9" /\ s[i+2] \in {"8","9"} /\ s[i+3] \in DigitChars

\* re.findall(...): the non-overlapping matches, leftmost first, from position i.
RECURSIVE FindYears(_, _)
FindYears(s, i) ==
    IF i + 3 > Len(s) THEN << >>
    ELSE IF YearAt(s, i) THEN <<SubSeq(s, i, i + 3)>> \o FindYears(s, i + 4)
    ELSE FindYears(s, i + 1)

\* re.search(r"(.)\1{2,}", password): some character three times in a row.
HasRepeat(s) == \E i \in 1..(Len(s) - 2) : s[i] = s[i+1] /\ s[i+1] = s[i+2]

\* for seq in sequences: if seq in pwd_lower: patterns.append(...)
RECURSIVE SequenceTags(_, _)
SequenceTags(pwd_lower, i) ==
    IF i > Len(sequences) THEN << >>
    ELSE (IF Contains(pwd_lower, sequences[i]) THEN <<SeqTag(sequences[i])>> ELSE << >>)
         \o SequenceTags(pwd_lower, i + 1)

\* for word in weak_words: if word in pwd_lower: patterns.append(...)
RECURSIVE WordTags(_, _)
WordTags(pwd_lower, i) ==
    IF i > Len(weak_words) THEN << >>
    ELSE (IF Contains(pwd_lower, weak_words[i]) THEN <<WordTag(weak_words[i])>> ELSE << >>)
         \o WordTags(pwd_lower, i + 1)

detect_weak_patterns(password) ==
    LET pwd_lower == Lower(password)
        years     == FindYears(password, 1)
    IN  SequenceTags(pwd_lower, 1)
        \o (IF years # << >> THEN <<YearTag(years[1])>> ELSE << >>)
        \o WordTags(pwd_lower, 1)
        \o (IF HasRepeat(password) THEN <<RepeatTag>> ELSE << >>)

\* ------------------------------------------------------ Python / JSON values

\* Python's None (a JSON null, or dict.get on a missing key).
None == "None"

\* dict.get(key, default)
Get(d, key, default) == IF key \in DOMAIN d THEN d[key] ELSE default

\* A JSON value whose Python type the code depends on: a string (a sequence of
\* characters) or a number.
JStr(s) == [type |-> "str", val |-> s]

JNum(n) == [type |-> "int", val |-> n]

\* bool(value)
Truthy(v) == IF v.type = "str" THEN v.val # << >> ELSE v.val # 0

\* An element of a JSON array: an object (a dict) or something else (here a
\* string), on which .get raises AttributeError.
JObject(d) == [type |-> "object", obj |-> d]

JNonObject == [type |-> "str"]

\* ---------------------------------------------------------------- sha256

\* The secret values of the model's inputs.
Admin == <<"a","d","m","i","n">>

Pass1234 == <<"P","a","s","s","1","2","3","4">>

\* Sixteen characters with no listed pattern; sixteen characters with a weak
\* word; four characters with no listed pattern.
Strong16 == <<"Z","q","7","!","L","m","9","#","R","t","2","$","W","x","5","&">>

LongWeak == <<"r","o","o","t","Z","q","7","!","L","m","9","#","R","t","2","$">>

ShortClean == <<"Z","q","7","!">>

SecretValues == {Admin, Pass1234, Strong16, LongWeak, ShortClean}

\* hashlib.sha256(value.encode()).hexdigest()[:16], tabulated for SecretValues
\* (the digests are the real ones).
Sha256Hex16(value) ==
    CASE value = Admin    -> <<"8","c","6","9","7","6","e","5","b","5","4","1","0","4","1","5">>
      [] value = Pass1234 -> <<"d","3","d","e","c","3","f","3","5","3","8","7","1","5","6","4">>
      [] value = Strong16 -> <<"3","0","1","2","5","2","e","d","0","e","f","0","f","c","b","d">>
      [] value = LongWeak -> <<"f","9","7","4","f","6","a","5","3","3","5","d","6","9","2","1">>
      [] value = ShortClean -> <<"2","6","3","1","4","9","9","1","2","8","6","e","b","b","c","1">>

\* ------------------------------------------------------ sanitize_json_input

\* value[:200]
TruncLen == 200

Truncate(s) == SubSeq(s, 1, IF Len(s) < TruncLen THEN Len(s) ELSE TruncLen)

\* any(c.isupper() for c in value) and the like.
HasUpper(s) == \E i \in 1..Len(s) : s[i] \in UpperChars

HasLower(s) == \E i \in 1..Len(s) : s[i] \in LowerChars

HasDigit(s) == \E i \in 1..Len(s) : s[i] \in DigitChars

HasSymbol(s) == \E i \in 1..Len(s) : s[i] \notin (UpperChars \cup LowerChars \cup DigitChars)

\* The password_analysis dict of lines 142-150.
Analyse(value) ==
    [length     |-> Len(value),
     has_upper  |-> HasUpper(value),
     has_lower  |-> HasLower(value),
     has_digit  |-> HasDigit(value),
     has_symbol |-> HasSymbol(value),
     hash       |-> Sha256Hex16(value),
     patterns   |-> detect_weak_patterns(value)]

\* Analyse, worked out once for each secret value of the model.
AnalysisTable == [value \in SecretValues |-> Analyse(value)]

PasswordAnalysis(value) == AnalysisTable[value]

\* The condition of line 133: field.get("type") == "CONCEALED" and value.
IsAnalysed(field) ==
    Get(field, "type", None) = "CONCEALED" /\ Truthy(Get(field, "value", JStr(<< >>)))

\* Whether the body of the field loop raises: value.encode() on a number that is
\* not 0 (line 134), value[:200] on a number (line 152).
FieldRaises(field) ==
    LET value == Get(field, "value", JStr(<< >>))
    IN  IF IsAnalysed(field) THEN value.type # "str"
        ELSE Get(field, "type", None) # "CONCEALED" /\ value.type # "str"

\* ProcessField copying the value of every field that is not analysed.
ProcessFieldKeepingEmpty(field) ==
    LET value == Get(field, "value", JStr(<< >>))
        base  == [id      |-> Get(field, "id", None),
                  label   |-> Get(field, "label", ""),
                  type    |-> Get(field, "type", "STRING"),
                  purpose |-> Get(field, "purpose", None)]
    IN  IF IsAnalysed(field)
        THEN base @@ ("password_analysis" :> PasswordAnalysis(value.val))
        ELSE base @@ ("value" :> Truncate(value.val))

\* Lines 123-154 for one field that does not raise: f_processed.
ProcessField(field) ==
    LET value == Get(field, "value", JStr(<< >>))
        base  == [id      |-> Get(field, "id", None),
                  label   |-> Get(field, "label", ""),
                  type    |-> Get(field, "type", "STRING"),
                  purpose |-> Get(field, "purpose", None)]
    IN  IF IsAnalysed(field)
        THEN base @@ ("password_analysis" :> PasswordAnalysis(value.val))
        ELSE IF Get(field, "type", None) # "CONCEALED"
        THEN base @@ ("value" :> Truncate(value.val))
        ELSE base

\* f"unknown_{len(processed)}"
UnknownId(n) ==
    CASE n = 0 -> "unknown_0" [] n = 1 -> "unknown_1" [] n = 2 -> "unknown_2"
      [] n = 3 -> "unknown_3" [] n = 4 -> "unknown_4" [] OTHER -> "unknown_n"

\* Lines 112-120: processed_item before its fields are added.
ProcessedItemHead(item, n) ==
    [id         |-> Get(item, "id", UnknownId(n)),
     title      |-> Get(item, "title", "Sem titulo"),
     category   |-> Get(item, "category", "UNKNOWN"),
     tags       |-> Get(item, "tags", << >>),
     created_at |-> Get(item, "created_at", None),
     updated_at |-> Get(item, "updated_at", None),
     fields     |-> << >>]

\* RecordHash forgetting the ids recorded before.
RecordHashOverwrite(password_hashes, pwd_hash, id) ==
    IF pwd_hash \in DOMAIN password_hashes
    THEN [password_hashes EXCEPT ![pwd_hash] = <<id>>]
    ELSE password_hashes @@ (pwd_hash :> <<id>>)

\* Lines 137-140: password_hashes after one more analysed field of item `id`.
RecordHash(password_hashes, pwd_hash, id) ==
    IF pwd_hash \in DOMAIN password_hashes
    THEN [password_hashes EXCEPT ![pwd_hash] = Append(@, id)]
    ELSE password_hashes @@ (pwd_hash :> <<id>>)

\* The loop of lines 122-154 from field j on.  st = [raised, item, hashes].
RECURSIVE FieldLoop(_, _, _)
FieldLoop(fields, j, st) ==
    IF st.raised \/ j > Len(fields) THEN st
    ELSE IF FieldRaises(fields[j]) THEN [st EXCEPT !.raised = TRUE]
    ELSE LET f == ProcessField(fields[j])
         IN  FieldLoop(fields, j + 1,
                 [raised |-> FALSE,
                  item   |-> [st.item EXCEPT !.fields = Append(@, f)],
                  hashes |-> IF "password_analysis" \in DOMAIN f
                             THEN RecordHash(st.hashes, f.password_analysis.hash, st.item.id)
                             ELSE st.hashes])

\* The loop of lines 111-156 from element i on.
\* st = [raised, processed, hashes].
RECURSIVE ItemLoop(_, _, _)
ItemLoop(items, i, st) ==
    IF st.raised \/ i > Len(items) THEN st
    ELSE IF items[i].type # "object" THEN [st EXCEPT !.raised = TRUE]
    ELSE LET item == items[i].obj
             r    == FieldLoop(Get(item, "fields", << >>), 1,
                         [raised |-> FALSE,
                          item   |-> ProcessedItemHead(item, Len(st.processed)),
                          hashes |-> st.hashes])
         IN  IF r.raised THEN [st EXCEPT !.raised = TRUE]
             ELSE ItemLoop(items, i + 1,
                      [raised    |-> FALSE,
                       processed |-> Append(st.processed, r.item),
                       hashes    |-> r.hashes])

\* Duplicates counting the distinct item ids of a hash, not its entries.
DuplicatesByDistinctIds(password_hashes) ==
    {h \in DOMAIN password_hashes :
        Cardinality({password_hashes[h][k] : k \in 1..Len(password_hashes[h])}) > 1}

\* Line 159: the hashes recorded more than once.
Duplicates(password_hashes) ==
    {h \in DOMAIN password_hashes : Len(password_hashes[h]) > 1}

\* Lines 163-167 for one processed field.
MarkField(field, password_hashes) ==
    IF "password_analysis" \in DOMAIN field
       /\ field.password_analysis.hash \in Duplicates(password_hashes)
    THEN [field EXCEPT !.password_analysis =
              @ @@ [is_duplicate  |-> TRUE,
                    duplicate_ids |-> password_hashes[field.password_analysis.hash]]]
    ELSE field

\* Lines 158-167: mark the duplicates in every processed item.
MarkDuplicates(processed, password_hashes) ==
    [i \in 1..Len(processed) |->
        [processed[i] EXCEPT !.fields =
            [j \in 1..Len(@) |-> MarkField(@[j], password_hashes)]]]

\* The messages sanitize_json_input returns as its second component.
ErrInvalidJson == "JSON invalido"

ErrFormat == "Formato invalido: esperado objeto ou array JSON"

ErrProcess == "Erro ao processar"

\* Lines 97-103: the list of items of a dict or a list.
NormalisedItems(data) ==
    IF data.kind = "dict"
    THEN IF "items" \in DOMAIN data.obj THEN data.obj.items ELSE <<JObject(data.obj)>>
    ELSE data.elems

\* The same function, but an exception keeps the items processed before it.
sanitize_json_input_partial(json_text) ==
    IF ~json_text.parses THEN [items |-> << >>, error |-> ErrInvalidJson]
    ELSE IF json_text.data.kind \notin {"dict", "list"}
    THEN [items |-> << >>, error |-> ErrFormat]
    ELSE LET r == ItemLoop(NormalisedItems(json_text.data), 1,
                      [raised |-> FALSE, processed |-> << >>, hashes |-> << >>])
         IN  [items |-> MarkDuplicates(r.processed, r.hashes),
              error |-> IF r.raised THEN ErrProcess ELSE ""]

\* json_text is [parses, data]: whether json.loads accepts it and, if so, the
\* value it yields, data = [kind, ...] with kind "list" (elems), "dict" (obj) or
\* "scalar".  The result is the pair the function returns.
sanitize_json_input(json_text) ==
    IF ~json_text.parses THEN [items |-> << >>, error |-> ErrInvalidJson]
    ELSE IF json_text.data.kind \notin {"dict", "list"}
    THEN [items |-> << >>, error |-> ErrFormat]
    ELSE LET r == ItemLoop(NormalisedItems(json_text.data), 1,
                      [raised |-> FALSE, processed |-> << >>, hashes |-> << >>])
         IN  IF r.raised
             THEN [items |-> << >>, error |-> ErrProcess]
             ELSE [items |-> MarkDuplicates(r.processed, r.hashes), error |-> ""]

\* ------------------------------------------------------------ generate_stats

\* The password length under which generate_stats counts a password as weak.
MinPasswordLength == 15

\* categories after the loop of lines 319-321 over items[1..n]: the pairs
\* <<category, count>> in first-seen order (a Python dict keeps insertion order).
RECURSIVE CategoryCounts(_, _)
CategoryCounts(items, n) ==
    IF n = 0 THEN << >>
    ELSE LET prev == CategoryCounts(items, n - 1)
             cat  == Get(items[n], "category", "UNKNOWN")
         IN  IF \E k \in 1..Len(prev) : prev[k][1] = cat
             THEN [k \in 1..Len(prev) |->
                      IF prev[k][1] = cat THEN <<cat, prev[k][2] + 1>> ELSE prev[k]]
             ELSE Append(prev, <<cat, 1>>)

\* sorted(categories.items(), key=lambda x: -x[1]): a stable sort, larger counts
\* first (insertion of rows[n] into the sorted rows[1..n-1]).
RECURSIVE SortedByCount(_, _)
SortedByCount(rows, n) ==
    IF n = 0 THEN << >>
    ELSE LET prev == SortedByCount(rows, n - 1)
             k    == Cardinality({m \in 1..Len(prev) : prev[m][2] >= rows[n][2]})
         IN  SubSeq(prev, 1, k) \o <<rows[n]>> \o SubSeq(prev, k + 1, Len(prev))

\* The password_analysis dicts of all the fields of items, in order.
RECURSIVE AnalysesOf(_, _)
AnalysesOf(items, n) ==
    IF n = 0 THEN << >>
    ELSE LET fs == Get(items[n], "fields", << >>)
         IN  AnalysesOf(items, n - 1)
             \o [j \in 1..Cardinality({m \in 1..Len(fs) : "password_analysis" \in DOMAIN fs[m]}) |->
                    fs[CHOOSE m \in 1..Len(fs) :
                          /\ "password_analysis" \in DOMAIN fs[m]
                          /\ Cardinality({q \in 1..m : "password_analysis" \in DOMAIN fs[q]}) = j
                      ].password_analysis]

RECURSIVE SumLengths(_, _)
SumLengths(pas, n) == IF n = 0 THEN 0 ELSE SumLengths(pas, n - 1) + pas[n].length

\* generate_stats counting a password as weak by its length alone.
generate_stats_weak_by_length(items) ==
    LET total    == Len(items)
        has_tags == Cardinality({i \in 1..total : Get(items[i], "tags", << >>) # << >>})
        pas      == AnalysesOf(items, total)
        weak     == Cardinality({k \in 1..Len(pas) : pas[k].length < MinPasswordLength})
        dups     == {pas[k].hash : k \in {m \in 1..Len(pas) : Get(pas[m], "is_duplicate", FALSE)}}
        cats     == CategoryCounts(items, total)
    IN  IF total = 0 THEN [raised |-> TRUE]
        ELSE [raised             |-> FALSE,
              total_items        |-> total,
              with_tags          |-> has_tags,
              without_tags       |-> total - has_tags,
              passwords_analysed |-> Len(pas),
              length_sum         |-> SumLengths(pas, Len(pas)),
              weak_passwords     |-> weak,
              duplicate_groups   |-> Cardinality(dups),
              categories         |-> SortedByCount(cats, Len(cats))]

\* generate_stats(items): the numbers and the category rows of the text it
\* returns, or the ZeroDivisionError of has_tags/total on an empty list.  The
\* average-length row is kept as the sum and the number of lengths it divides.
generate_stats(items) ==
    LET total    == Len(items)
        has_tags == Cardinality({i \in 1..total : Get(items[i], "tags", << >>) # << >>})
        pas      == AnalysesOf(items, total)
        weak     == Cardinality({k \in 1..Len(pas) :
                        pas[k].length < MinPasswordLength \/ Get(pas[k], "patterns", << >>) # << >>})
        dups     == {pas[k].hash : k \in {m \in 1..Len(pas) : Get(pas[m], "is_duplicate", FALSE)}}
        cats     == CategoryCounts(items, total)
    IN  IF total = 0 THEN [raised |-> TRUE]
        ELSE [raised             |-> FALSE,
              total_items        |-> total,
              with_tags          |-> has_tags,
              without_tags       |-> total - has_tags,
              passwords_analysed |-> Len(pas),
              length_sum         |-> SumLengths(pas, Len(pas)),
              weak_passwords     |-> weak,
              duplicate_groups   |-> Cardinality(dups),
              categories         |-> SortedByCount(cats, Len(cats))]

\* ----------------------------------------------------------------- run_audit

\* What run_audit returns: <<report, stats>>, as [report, stats].  report is the
\* kind of text returned; stats is NoStats for the empty string.
NoStats == [raised |-> FALSE, empty |-> TRUE]

\* run_audit from line 249 on, r being what sanitize_json_input returned on line
\* 248, has_token telling whether a token is given or configured and api_ok
\* whether the chat_completion call returns.
run_audit(r, has_token, api_ok) ==
        IF r.error # ""    THEN [report |-> "validation_error", stats |-> NoStats]
        ELSE IF r.items = << >> THEN [report |-> "no_items_error", stats |-> NoStats]
        ELSE IF ~has_token THEN [report |-> "no_token_error", stats |-> NoStats]
        ELSE IF ~api_ok    THEN [report |-> "api_error", stats |-> NoStats]
        ELSE LET st == generate_stats(r.items)
             IN  IF st.raised THEN [report |-> "api_error", stats |-> NoStats]
                 ELSE [report |-> "llm_report", stats |-> st]

\* ------------------------------------------------------------------- inputs

\* The ids an input item may carry ("unknown_1" is also a synthetic id).
ItemIds == {"A", "B"}

\* The fields of the model's input items.
FieldSet ==
    {[type |-> "CONCEALED", value |-> JStr(Admin)],
     [type |-> "CONCEALED", value |-> JStr(Pass1234)],
     [type |-> "CONCEALED", value |-> JStr(<< >>)],
     [type |-> "STRING",    value |-> JStr(<<"d","b">>)],
     [type |-> "STRING",    value |-> JNum(5432)]}

\* The item dicts with exactly k fields, with and without an id.
ItemsWith(k) ==
    {[id |-> i, fields |-> fs] : i \in ItemIds, fs \in [1..k -> FieldSet]}
    \cup {[fields |-> fs] : fs \in [1..k -> FieldSet]}

\* The array elements with exactly k fields.
ElementsWith(k) ==
    {JObject(it) : it \in ItemsWith(k)} \cup (IF k = 0 THEN {JNonObject} ELSE {})

\* A vault object as the exporter writes it: vault_name and items (here at most
\* one item of at most one field).
VaultObjects ==
    {[vault_name |-> "vault", items |-> l] :
        l \in {<< >>} \cup {<<e>> : e \in ElementsWith(0) \cup ElementsWith(1)}}

\* Largest number of vault objects in an input that is an array of vaults.
MaxVaults == 2

RECURSIVE VaultLists(_)
VaultLists(n) ==
    IF n = 0 THEN {<< >>}
    ELSE {<< >>} \cup {<<JObject(v)>> \o rest : v \in VaultObjects, rest \in VaultLists(n - 1)}

\* The JSON values of the texts the input box starts with: a scalar, an empty
\* array, an array of vaults, one vault, one item.
InitialJsonData ==
    {[kind |-> "scalar"]}
    \cup {[kind |-> "list", elems |-> l] : l \in VaultLists(MaxVaults)}
    \cup {[kind |-> "dict", obj |-> v] : v \in VaultObjects}
    \cup {[kind |-> "dict", obj |-> it] : it \in ItemsWith(0) \cup ItemsWith(1)}

\* The texts the input box starts with: one that json.loads rejects, and one for
\* each JSON value above.
InitialJsonTexts ==
    {[parses |-> FALSE]} \cup {[parses |-> TRUE, data |-> d] : d \in InitialJsonData}

\* The number of fields of the items of an array.
RECURSIVE FieldCount(_, _)
FieldCount(elems, n) ==
    IF n = 0 THEN 0
    ELSE FieldCount(elems, n - 1)
         + (IF elems[n].type = "object" THEN Len(Get(elems[n].obj, "fields", << >>)) ELSE 0)

\* An array of items (not of vaults).
IsItemArray(text) ==
    /\ text.parses
    /\ text.data.kind = "list"
    /\ \A n \in 1..Len(text.data.elems) :
          text.data.elems[n].type = "object" => "items" \notin DOMAIN text.data.elems[n].obj

\* ================================================== cli/audit_1password_expert.py

\* CONFIG["ollama_model"], CONFIG["ollama_fallback"], CONFIG["hf_model"]
OllamaModel == "1password-auditor"

OllamaFallback == "qwen2.5:14b"

HfModel == "Qwen/Qwen2.5-72B-Instruct"

\* Largest number of fields of an item that `op item get` returns.
MaxOpFields == 1

\* The fields `op item get` may return: a secret, an empty secret, a concealed
\* field without value, a plain field.
OpFieldSet ==
    {[id |-> "f", label |-> "password", type |-> "CONCEALED", value |-> Admin],
     [id |-> "f", label |-> "password", type |-> "CONCEALED", value |-> << >>],
     [id |-> "f", label |-> "password", type |-> "CONCEALED"],
     [id |-> "f", label |-> "host", type |-> "STRING", value |-> <<"d","b">>]}

\* What the `op` calls of one export_vault may return: no item, or one item.
OpItemLists ==
    {<< >>} \cup
    {<<[id |-> "A", title |-> "postgres", category |-> "DATABASE", fields |-> fs]>> :
        fs \in UNION {[1..k -> OpFieldSet] : k \in 0..MaxOpFields}}

\* Lines 136-143: the _analysis dict.
InlineAnalysis(pwd) ==
    [length     |-> Len(pwd),
     has_upper  |-> HasUpper(pwd),
     has_lower  |-> HasLower(pwd),
     has_digit  |-> HasDigit(pwd),
     has_symbol |-> HasSymbol(pwd),
     hash       |-> Sha256Hex16(pwd)]

\* Lines 133-143 for one field.
AnnotateField(field) ==
    IF Get(field, "type", None) = "CONCEALED" /\ Get(field, "value", << >>) # << >>
    THEN field @@ ("_analysis" :> InlineAnalysis(field.value))
    ELSE field

\* export_vault(vault_name, ...) when `op item list` succeeds and the item
\* details obtained are op_items.
export_vault(vault_name, op_items) ==
    LET items_full == [i \in 1..Len(op_items) |->
                          [op_items[i] EXCEPT !.fields =
                              [j \in 1..Len(@) |-> AnnotateField(@[j])]]]
    IN  [vault_name  |-> vault_name,
         export_date |-> "now",
         total_items |-> Len(items_full),
         items       |-> items_full]

\* Lines 333-345: f_sanitized.
SanitizedField(field) ==
    [id      |-> Get(field, "id", None),
     label   |-> Get(field, "label", None),
     type    |-> Get(field, "type", None),
     purpose |-> Get(field, "purpose", None)]
    @@ (IF "_analysis" \in DOMAIN field
        THEN ("password_analysis" :> field["_analysis"])
        ELSE IF Get(field, "type", None) # "CONCEALED" /\ Get(field, "value", << >>) # << >>
        THEN ("value" :> field.value)
        ELSE << >>)

\* Lines 322-347: sanitized.
SanitizedItem(item) ==
    [id         |-> Get(item, "id", None),
     title      |-> Get(item, "title", None),
     category   |-> Get(item, "category", None),
     tags       |-> Get(item, "tags", << >>),
     created_at |-> Get(item, "created_at", None),
     updated_at |-> Get(item, "updated_at", None),
     fields     |-> [j \in 1..Len(Get(item, "fields", << >>)) |->
                        SanitizedField(item.fields[j])]]

\* build_audit_prompt(data): for each vault, its name, its total and the JSON
\* block of its sanitized items (the fixed text around them is left out).
build_audit_prompt(data) ==
    [v \in 1..Len(data) |->
        [vault_name  |-> data[v].vault_name,
         total_items |-> data[v].total_items,
         items       |-> [i \in 1..Len(data[v].items) |-> SanitizedItem(data[v].items[i])]]]

\* Lines 403-405 dropping only _analysis.
SafeFieldKeepingValue(field) ==
    [k \in DOMAIN field \ {"_analysis"} |-> field[k]]
    @@ (IF "_analysis" \in DOMAIN field
        THEN ("password_analysis" :> field["_analysis"]) ELSE << >>)

\* Lines 403-405: safe_field.
SafeField(field) ==
    [k \in DOMAIN field \ {"value", "_analysis"} |-> field[k]]
    @@ (IF "_analysis" \in DOMAIN field
        THEN ("password_analysis" :> field["_analysis"]) ELSE << >>)

\* Lines 391-408: safe_data, the content of the export JSON file.
SafeData(data) ==
    [v \in 1..Len(data) |->
        [vault_name  |-> data[v].vault_name,
         export_date |-> data[v].export_date,
         total_items |-> data[v].total_items,
         items       |-> [i \in 1..Len(data[v].items) |->
                             [k \in DOMAIN data[v].items[i] |->
                                 IF k = "fields"
                                 THEN [j \in 1..Len(data[v].items[i].fields) |->
                                          SafeField(data[v].items[i].fields[j])]
                                 ELSE data[v].items[i][k]]]]]

\* The command lines: the flags main reads.  model is None without --model.
CommandLines ==
    [hf : BOOLEAN, export_only : BOOLEAN, no_secrets : BOOLEAN,
     create_model : BOOLEAN, model : {None, "my-model"}]

\* The vault selections that pass lines 484-499.
Selections == {<<"1p_vps">>, <<"1p_vps", "1p_macos">>}

\* ------------------------------------------------------------------- state

VARIABLES
    json_input,   \* engine: the text in the input box
    pc,           \* engine: "input", then "sanitized" or "audited"
    result,       \* engine: what sanitize_json_input returned: [items, error]
    audit,        \* engine: what run_audit returned: [report, stats]
    cpc,          \* cli: the position of main
    args,         \* cli: the parsed command line
    selected,     \* cli: selected_vaults
    confirm,      \* cli: the answer to the confirmation prompt, or "not asked"
    exports,      \* cli: the calls of export_vault so far: [vault, include_secrets, confirm]
    export_data,  \* cli: export_data
    backend,      \* cli: backend
    last_check,   \* cli: the latest result of check_ollama_model for each model
    ollama_call,  \* cli: the ollama.generate request made: [model, prompt]
    hf_call,      \* cli: the request sent to the HuggingFace Inference API
    debug_file,   \* cli: the content of the debug prompt file
    export_file,  \* cli: the content of the export JSON file
    exit_code,    \* cli: the status main ended with
    candidate,    \* detect_weak_patterns: the value it is called on
    weak_tags     \* detect_weak_patterns: [called, tags], the tags it returned

EngineVars == <<json_input, pc, result, audit>>

CliVars == <<cpc, args, selected, confirm, exports, export_data, backend, last_check,
             ollama_call, hf_call, debug_file, export_file, exit_code>>

PatternVars == <<candidate, weak_tags>>

vars == <<EngineVars, CliVars, PatternVars>>

\* A file not written, a request not made.
Nothing == [written |-> FALSE]

NoResult == [items |-> << >>, error |-> "not called"]

NoAudit == [report |-> "not called", stats |-> NoStats]

NoArgs == [hf |-> FALSE, export_only |-> FALSE, no_secrets |-> FALSE,
           create_model |-> FALSE, model |-> None]

Unchecked == "unchecked"

\* What check_ollama_model returned: the model is in `ollama list` or not.
CheckResult(found) == IF found THEN "present" ELSE "absent"

\* The values main starts with, apart from the command line.
CliStart ==
    /\ cpc = "start"
    /\ selected = << >>
    /\ confirm = "not asked"
    /\ exports = << >>
    /\ export_data = << >>
    /\ backend = None
    /\ last_check = [m \in {OllamaModel, OllamaFallback, "my-model"} |-> Unchecked]
    /\ ollama_call = Nothing
    /\ hf_call = Nothing
    /\ debug_file = Nothing
    /\ export_file = Nothing
    /\ exit_code = None

EngineStart ==
    /\ pc = "input"
    /\ result = NoResult
    /\ audit = NoAudit

\* No call of detect_weak_patterns on its own.
PatternStart ==
    /\ candidate = << >>
    /\ weak_tags = [called |-> FALSE]

\* ------------------------------------------------------------- the engine

Init ==
    /\ json_input \in InitialJsonTexts
    /\ EngineStart
    /\ args = NoArgs
    /\ CliStart
    /\ PatternStart

\* The user adds one more element to the array in the input box.
EditInput ==
    /\ pc = "input"
    /\ IsItemArray(json_input)
    /\ Len(json_input.data.elems) < MaxItems
    /\ \E k \in 0..(MaxFields - FieldCount(json_input.data.elems, Len(json_input.data.elems))) :
          \E e \in ElementsWith(k) :
             json_input' = [json_input EXCEPT !.data.elems = Append(@, e)]
    /\ UNCHANGED <<pc, result, audit>>
    /\ UNCHANGED <<CliVars, PatternVars>>

\* A call of sanitize_json_input on the text.
SanitizeJsonInput ==
    /\ pc = "input"
    /\ result' = sanitize_json_input(json_input)
    /\ pc' = "sanitized"
    /\ UNCHANGED <<json_input, audit>>
    /\ UNCHANGED <<CliVars, PatternVars>>

\* A click on the audit button: run_audit on the text.
RunAudit ==
    /\ pc = "input"
    /\ result' = sanitize_json_input(json_input)
    /\ \E has_token \in BOOLEAN, api_ok \in BOOLEAN :
          audit' = run_audit(result', has_token, api_ok)
    /\ pc' = "audited"
    /\ UNCHANGED json_input
    /\ UNCHANGED <<CliVars, PatternVars>>

Next == EditInput \/ SanitizeJsonInput \/ RunAudit

Spec == Init /\ [][Next]_vars

\* ------------------------------------------------------------------ main

InitCli ==
    /\ json_input = [parses |-> FALSE]
    /\ EngineStart
    /\ args \in CommandLines
    /\ CliStart
    /\ PatternStart

Exit(code) == cpc' = "exit" /\ exit_code' = code

include_secrets == ~args.no_secrets

\* Lines 467-501: the 1Password CLI check, --create-model, the vault list and the
\* selection.  op_ok: check_op_cli(); sel: the selection, << >> when there is no
\* vault, an unknown vault is named or nothing is selected.
Startup ==
    /\ cpc = "start"
    /\ \E op_ok \in BOOLEAN, sel \in Selections \cup {<< >>} :
          IF ~op_ok THEN Exit(1) /\ UNCHANGED selected
          ELSE IF args.create_model THEN Exit(0) /\ UNCHANGED selected
          ELSE IF sel = << >> THEN Exit(1) /\ UNCHANGED selected
          ELSE cpc' = "confirm" /\ selected' = sel /\ UNCHANGED exit_code
    /\ UNCHANGED <<args, confirm, exports, export_data, backend, last_check,
                   ollama_call, hf_call, debug_file, export_file>>
    /\ UNCHANGED <<EngineVars, PatternVars>>

\* Lines 503-511: the confirmation ("nao" stands for any answer but "sim").
Confirm ==
    /\ cpc = "confirm"
    /\ IF include_secrets /\ ~args.export_only
       THEN \E answer \in {"sim", "nao"} :
               /\ confirm' = answer
               /\ IF answer # "sim" THEN Exit(0) ELSE cpc' = "export" /\ UNCHANGED exit_code
       ELSE cpc' = "export" /\ UNCHANGED <<confirm, exit_code>>
    /\ UNCHANGED <<args, selected, exports, export_data, backend, last_check,
                   ollama_call, hf_call, debug_file, export_file>>
    /\ UNCHANGED <<EngineVars, PatternVars>>

\* Lines 519-524: export_vault for the next selected vault; the call fails
\* (CalledProcessError, the vault is skipped) or returns the vault's export.
ExportVault ==
    /\ cpc = "export"
    /\ Len(exports) < Len(selected)
    /\ exports' = Append(exports, [vault           |-> selected[Len(exports) + 1],
                                   include_secrets |-> include_secrets,
                                   confirm         |-> confirm])
    /\ \/ UNCHANGED export_data
       \/ \E op_items \in OpItemLists :
             export_data' = Append(export_data,
                                   export_vault(selected[Len(exports) + 1], op_items))
    /\ UNCHANGED <<cpc, args, selected, confirm, backend, last_check,
                   ollama_call, hf_call, debug_file, export_file, exit_code>>
    /\ UNCHANGED <<EngineVars, PatternVars>>

\* Lines 526-547: nothing exported ends the run; --export-only saves and ends it.
AfterExport ==
    /\ cpc = "export"
    /\ Len(exports) = Len(selected)
    /\ IF export_data = << >> THEN Exit(1) /\ UNCHANGED export_file
       ELSE IF args.export_only
       THEN Exit(0) /\ export_file' = [written |-> TRUE, content |-> SafeData(export_data)]
       ELSE cpc' = "backend" /\ UNCHANGED <<export_file, exit_code>>
    /\ UNCHANGED <<args, selected, confirm, exports, export_data, backend, last_check,
                   ollama_call, hf_call, debug_file>>
    /\ UNCHANGED <<EngineVars, PatternVars>>

\* args.model or CONFIG["ollama_model"]
RequestedModel == IF args.model # None THEN args.model ELSE OllamaModel

\* Lines 549-562: the backend.  up: check_ollama(); has_model, has_fallback: the
\* results of the check_ollama_model calls made.
DetermineBackend ==
    /\ cpc = "backend"
    /\ \E up \in BOOLEAN, has_model \in BOOLEAN, has_fallback \in BOOLEAN :
          IF args.hf THEN backend' = "huggingface" /\ UNCHANGED last_check
          ELSE IF ~up THEN backend' = "huggingface" /\ UNCHANGED last_check
          ELSE IF has_model
          THEN /\ backend' = "ollama"
               /\ last_check' = [last_check EXCEPT ![RequestedModel] = CheckResult(TRUE)]
          ELSE /\ backend' = IF has_fallback THEN "ollama" ELSE "huggingface"
               /\ last_check' = [last_check EXCEPT ![RequestedModel] = CheckResult(FALSE),
                                   ![OllamaFallback] = CheckResult(has_fallback)]
    /\ cpc' = "audit"
    /\ UNCHANGED <<args, selected, confirm, exports, export_data,
                   ollama_call, hf_call, debug_file, export_file, exit_code>>
    /\ UNCHANGED <<EngineVars, PatternVars>>

\* Lines 565-569 and audit_with_ollama.  has_model: check_ollama_model(model);
\* lib_ok: the ollama library imports; gen_ok: ollama.generate returns.
AuditWithOllama ==
    /\ cpc = "audit"
    /\ backend = "ollama"
    /\ \E has_model \in BOOLEAN, lib_ok \in BOOLEAN, gen_ok \in BOOLEAN :
          /\ last_check' = [last_check EXCEPT ![RequestedModel] = CheckResult(has_model)]
          /\ IF ~lib_ok THEN Exit(1) /\ UNCHANGED <<debug_file, ollama_call>>
             ELSE /\ debug_file' = [written |-> TRUE,
                                    content |-> build_audit_prompt(export_data)]
                  /\ ollama_call' = [written |-> TRUE,
                                     model   |-> IF has_model THEN RequestedModel
                                                 ELSE OllamaFallback,
                                     prompt  |-> build_audit_prompt(export_data)]
                  /\ IF gen_ok THEN cpc' = "save" /\ UNCHANGED exit_code ELSE Exit(1)
    /\ UNCHANGED <<args, selected, confirm, exports, export_data, backend,
                   hf_call, export_file>>
    /\ UNCHANGED <<EngineVars, PatternVars>>

\* Lines 571-572 and audit_with_huggingface.  lib_ok: huggingface_hub imports;
\* has_token: a token is found; gen_ok: text_generation returns.
AuditWithHuggingface ==
    /\ cpc = "audit"
    /\ backend = "huggingface"
    /\ \E lib_ok \in BOOLEAN, has_token \in BOOLEAN, gen_ok \in BOOLEAN :
          IF ~lib_ok \/ ~has_token THEN Exit(1) /\ UNCHANGED <<debug_file, hf_call>>
          ELSE /\ debug_file' = [written |-> TRUE,
                                 content |-> build_audit_prompt(export_data)]
               /\ hf_call' = [written |-> TRUE,
                              model   |-> IF args.model # None THEN args.model ELSE HfModel,
                              prompt  |-> build_audit_prompt(export_data)]
               /\ IF gen_ok THEN cpc' = "save" /\ UNCHANGED exit_code ELSE Exit(1)
    /\ UNCHANGED <<args, selected, confirm, exports, export_data, backend, last_check,
                   ollama_call, export_file>>
    /\ UNCHANGED <<EngineVars, PatternVars>>

\* Lines 579-586: save_report.
SaveReport ==
    /\ cpc = "save"
    /\ export_file' = [written |-> TRUE, content |-> SafeData(export_data)]
    /\ cpc' = "done"
    /\ UNCHANGED <<args, selected, confirm, exports, export_data, backend, last_check,
                   ollama_call, hf_call, debug_file, exit_code>>
    /\ UNCHANGED <<EngineVars, PatternVars>>

NextCli ==
    \/ Startup
    \/ Confirm
    \/ ExportVault
    \/ AfterExport
    \/ DetermineBackend
    \/ AuditWithOllama
    \/ AuditWithHuggingface
    \/ SaveReport

SpecCli == InitCli /\ [][NextCli]_vars

\* =========================================================== the engine's claims

Returned == pc # "input"

\* The items sanitize_json_input iterates over (empty when it returns before).
InputItems ==
    IF json_input.parses /\ json_input.data.kind \in {"dict", "list"}
    THEN NormalisedItems(json_input.data) ELSE << >>

\* The positions <<i, j>> of the fields of the input items.
InputFieldPositions ==
    UNION {{<<i, j>> : j \in 1..Len(Get(InputItems[i].obj, "fields", << >>))} :
              i \in {n \in 1..Len(InputItems) : InputItems[n].type = "object"}}

InputField(p) == InputItems[p[1]].obj.fields[p[2]]

\* The positions of the CONCEALED fields with a non-empty string value.
SecretPositions ==
    {p \in InputFieldPositions :
        /\ Get(InputField(p), "type", None) = "CONCEALED"
        /\ Get(InputField(p), "value", JStr(<< >>)).type = "str"
        /\ Get(InputField(p), "value", JStr(<< >>)).val # << >>}

RawValue(p) == InputField(p).value.val

\* The processed field returned for the input field at p.
OutputField(p) == result.items[p[1]].fields[p[2]]

IsMarkedDuplicate(p) ==
    /\ "password_analysis" \in DOMAIN OutputField(p)
    /\ Get(OutputField(p).password_analysis, "is_duplicate", FALSE)

DuplicateIds(p) == Get(OutputField(p).password_analysis, "duplicate_ids", << >>)

\* The character strings of a processed field that derive from its value: the
\* value kept, the hash and the weakness tags.  (Its ids and labels are copied from
\* the input and are whole strings here.)
DerivedStrings(f) ==
    (IF "value" \in DOMAIN f THEN {f.value} ELSE {})
    \cup (IF "password_analysis" \in DOMAIN f
          THEN {f.password_analysis.hash}
               \cup {f.password_analysis.patterns[k] :
                        k \in 1..Len(f.password_analysis.patterns)}
          ELSE {})

\* C1: whenever sanitize_json_input returns items, the processed field of every
\* CONCEALED field with a non-empty value holds no string that contains the raw
\* value.
C1_NoSecretLeak ==
    (Returned /\ result.error = "") =>
        \A p \in SecretPositions :
            \A str \in DerivedStrings(OutputField(p)) : ~Contains(str, RawValue(p))

GroupIds(p) == {result.items[q[1]].id : q \in {r \in SecretPositions : RawValue(r) = RawValue(p)}}

\* C5: the duplicate ids of an analysis are the ids of its group without the id of
\* the item that owns the analysis, each listed once.
C5_DuplicateIdsExcludeOwner ==
    (Returned /\ result.error = "") =>
        \A p \in SecretPositions :
            IsMarkedDuplicate(p) =>
                LET ids == DuplicateIds(p)
                IN  /\ {ids[k] : k \in 1..Len(ids)} = GroupIds(p) \ {result.items[p[1]].id}
                    /\ \A k \in 1..Len(ids) : \A m \in 1..Len(ids) : ids[k] = ids[m] => k = m

\* The secrets held by one item in two of its fields and by no other item.
SelfDuplicatedPositions ==
    {p \in SecretPositions :
        /\ \E q \in SecretPositions : q[1] = p[1] /\ q[2] # p[2] /\ RawValue(q) = RawValue(p)
        /\ \A q \in SecretPositions : RawValue(q) = RawValue(p) => q[1] = p[1]}

\* The secrets held by two fields or more of the input.
RepeatedSecrets ==
    {RawValue(p) : p \in {q \in SecretPositions :
        \E r \in SecretPositions : r # q /\ RawValue(r) = RawValue(q)}}

\* C6: a secret that one item holds in two of its own CONCEALED fields, and no
\* other item holds, makes a duplicate group: both analyses are marked
\* is_duplicate, and the statistics count each group of repeated secrets once.
C6_SelfDuplicateGroup ==
    (Returned /\ result.error = "" /\ SelfDuplicatedPositions # {}) =>
        /\ \A p \in SelfDuplicatedPositions : IsMarkedDuplicate(p)
        /\ audit.report = "llm_report" =>
              audit.stats.duplicate_groups = Cardinality(RepeatedSecrets)

\* C6's case: the statistics of an input with such an item were produced.
C6_Witness ==
    /\ pc = "audited"
    /\ audit.report = "llm_report"
    /\ SelfDuplicatedPositions # {}

\* The vault objects of an input that is an array of vaults, as <<n, items>>.
InputVaults ==
    {n \in 1..Len(InputItems) :
        InputItems[n].type = "object" /\ "items" \in DOMAIN InputItems[n].obj}

\* The secrets of the CONCEALED fields of the items of vault n.
VaultSecrets(n) ==
    LET its == InputItems[n].obj.items
    IN  {f.value.val : f \in UNION {
            {Get(its[i].obj, "fields", << >>)[j] : j \in 1..Len(Get(its[i].obj, "fields", << >>))} :
                i \in {m \in 1..Len(its) : its[m].type = "object"}} \cap
            {g \in FieldSet : g.type = "CONCEALED" /\ g.value.val # << >>}}

\* Some analysis of the result is marked is_duplicate.
SomeDuplicateMarked ==
    \E i \in 1..Len(result.items) : \E j \in 1..Len(result.items[i].fields) :
        /\ "password_analysis" \in DOMAIN result.items[i].fields[j]
        /\ Get(result.items[i].fields[j].password_analysis, "is_duplicate", FALSE)

\* C7: given an array of vault objects, two items of different vaults that hold
\* the same secret are marked duplicates.
C7_CrossVaultDuplicates ==
    (Returned /\ json_input.parses /\ json_input.data.kind = "list") =>
        \A n \in InputVaults : \A m \in InputVaults :
            (n # m /\ VaultSecrets(n) \cap VaultSecrets(m) # {}) =>
                result.error = "" /\ SomeDuplicateMarked

\* An element of the input that is not a well-formed item: not an object, or
\* with a field whose value is not a string.
Malformed(e) ==
    \/ e.type # "object"
    \/ \E j \in 1..Len(Get(e.obj, "fields", << >>)) :
          Get(e.obj.fields[j], "value", JStr(<< >>)).type # "str"

MalformedPositions == {i \in 1..Len(InputItems) : Malformed(InputItems[i])}

\* C8: with one malformed element among well-formed ones, sanitize_json_input
\* returns no error and a processed item for every well-formed one.
C8_MalformedRecordDoesNotAbort ==
    (Returned /\ Cardinality(MalformedPositions) = 1 /\ Len(InputItems) > 1) =>
        /\ result.error = ""
        /\ Len(result.items) >= Len(InputItems) - 1

\* C9: on an empty item set run_audit reports no error, and its summary has
\* every count zero.
C9_EmptyInputNoError ==
    (pc = "audited" /\ json_input.parses /\ json_input.data.kind \in {"dict", "list"}
        /\ InputItems = << >>) =>
        /\ audit.report \notin {"validation_error", "no_items_error"}
        /\ audit.report = "llm_report" =>
              /\ audit.stats.total_items = 0
              /\ audit.stats.with_tags = 0
              /\ audit.stats.without_tags = 0
              /\ audit.stats.passwords_analysed = 0
              /\ audit.stats.weak_passwords = 0
              /\ audit.stats.duplicate_groups = 0

\* C10: sanitize_json_input returns either items with an empty error, or no item
\* with one of its error messages; a text that does not parse gives the latter.
C10_AllOrNothing ==
    Returned =>
        /\ \/ result.error = ""
           \/ result.items = << >> /\ result.error \in {ErrInvalidJson, ErrFormat, ErrProcess}
        /\ ~json_input.parses => (result.items = << >> /\ result.error = ErrInvalidJson)

\* C10's case: an exception after a first item was processed.
C10_Witness ==
    /\ Returned
    /\ result.error = ErrProcess
    /\ Len(InputItems) > 1
    /\ ~Malformed(InputItems[1])

\* ============================================================== the cli's claims

\* The item lists of the artifacts written after the export: the prompt sent to
\* either backend, the debug prompt file, the export JSON file.  Each is a
\* sequence of vaults with their items, like export_data.
Artifacts ==
    (IF ollama_call.written THEN {ollama_call.prompt} ELSE {})
    \cup (IF hf_call.written THEN {hf_call.prompt} ELSE {})
    \cup (IF debug_file.written THEN {debug_file.content} ELSE {})
    \cup (IF export_file.written THEN {export_file.content} ELSE {})

\* The positions <<v, i, j>> of the CONCEALED fields of export_data.
ConcealedPositions ==
    UNION {UNION {{<<v, i, j>> : j \in {k \in 1..Len(export_data[v].items[i].fields) :
                                     export_data[v].items[i].fields[k].type = "CONCEALED"}} :
                     i \in 1..Len(export_data[v].items)} :
              v \in 1..Len(export_data)}

\* C2: in every artifact written after the export, a CONCEALED field carries no
\* value, with or without an _analysis: it has its metadata and, when analysed,
\* its analysis as password_analysis.
C2_NoConcealedValueInArtifacts ==
    \A art \in Artifacts : \A p \in ConcealedPositions :
        LET src == export_data[p[1]].items[p[2]].fields[p[3]]
            out == art[p[1]].items[p[2]].fields[p[3]]
        IN  /\ "value" \notin DOMAIN out
            /\ DOMAIN out \subseteq {"id", "label", "type", "purpose", "password_analysis"}
            /\ "password_analysis" \in DOMAIN out <=> "_analysis" \in DOMAIN src
            /\ "_analysis" \in DOMAIN src =>
                  /\ out.password_analysis = src["_analysis"]
                  /\ ~Contains(out.password_analysis.hash, src.value)

\* C2's case: a run that wrote the prompt and the export of a revealed secret.
C2_Witness ==
    /\ cpc = "done"
    /\ debug_file.written
    /\ export_file.written
    /\ \E p \in ConcealedPositions :
          Get(export_data[p[1]].items[p[2]].fields[p[3]], "value", << >>) # << >>

\* C3: once the user has answered "sim", no item of a vault is sent to the
\* HuggingFace Inference API.
C3_NothingTransmittedAfterConfirmation ==
    confirm = "sim" =>
        ~(hf_call.written /\ \E v \in 1..Len(hf_call.prompt) : hf_call.prompt[v].items # << >>)

\* ==================================================== detect_weak_patterns alone

\* Longest value detect_weak_patterns is called on.
MaxPasswordLen == 8

\* The value is put together from these: years in and around the range, both
\* cases of a letter, a listed sequence and a weak word.
Pieces == { <<"a">>, <<"A">>,
            <<"1","2","3">>,
            <<"r","o","o","t">>,
            <<"1","9","7","9">>, <<"1","9","9","9">>, <<"2","0","0","5">>,
            <<"2","0","1","9">>, <<"2","0","3","0">> }

InitPatterns ==
    /\ json_input = [parses |-> FALSE]
    /\ EngineStart
    /\ args = NoArgs
    /\ CliStart
    /\ PatternStart

\* The value grows by one piece.
TypePiece ==
    /\ ~weak_tags.called
    /\ \E piece \in Pieces :
          /\ Len(candidate) + Len(piece) <= MaxPasswordLen
          /\ candidate' = candidate \o piece
    /\ UNCHANGED weak_tags
    /\ UNCHANGED <<EngineVars, CliVars>>

\* A call of detect_weak_patterns on the value.
DetectWeakPatterns ==
    /\ ~weak_tags.called
    /\ weak_tags' = [called |-> TRUE, tags |-> detect_weak_patterns(candidate)]
    /\ UNCHANGED candidate
    /\ UNCHANGED <<EngineVars, CliVars>>

NextPatterns == TypePiece \/ DetectWeakPatterns

SpecPatterns == InitPatterns /\ [][NextPatterns]_vars

\* ------------------------------------------------------------ the tags' claims

Tags == {weak_tags.tags[k] : k \in 1..Len(weak_tags.tags)}

DigitValue == [c \in DigitChars |->
                 CASE c = "0" -> 0 [] c = "1" -> 1 [] c = "2" -> 2 [] c = "3" -> 3
                   [] c = "4" -> 4 [] c = "5" -> 5 [] c = "6" -> 6 [] c = "7" -> 7
                   [] c = "8" -> 8 [] c = "9" -> 9]

\* Four digits at position i of s that read as a year from 1980 to 2029.
InRangeYearAt(s, i) ==
    /\ i + 3 <= Len(s)
    /\ \A k \in i..(i + 3) : s[k] \in DigitChars
    /\ LET y == 1000 * DigitValue[s[i]] + 100 * DigitValue[s[i+1]]
                + 10 * DigitValue[s[i+2]] + DigitValue[s[i+3]]
       IN  1980 <= y /\ y <= 2029

InRangeYears(s) == {SubSeq(s, i, i + 3) : i \in {k \in 1..Len(s) : InRangeYearAt(s, k)}}

IsYearTag(tag) == Len(tag) >= 4 /\ SubSeq(tag, 1, 4) = <<"a","n","o"," ">>

\* C11: a value containing a year from 1980 to 2029 gets a year tag carrying a
\* year it contains; a value containing no such year gets no year tag.
C11_YearTagForEveryYearInRange ==
    weak_tags.called =>
        /\ InRangeYears(candidate) # {}
              => \E y \in InRangeYears(candidate) : YearTag(y) \in Tags
        /\ InRangeYears(candidate) = {} => \A tag \in Tags : ~IsYearTag(tag)

\* C12: every match is reported: a tag for each listed sequence and each weak
\* word in the lowered value, and for each distinct year the expression matches.
C12_EveryMatchReported ==
    weak_tags.called =>
        /\ \A k \in 1..Len(sequences) :
              Contains(Lower(candidate), sequences[k]) => SeqTag(sequences[k]) \in Tags
        /\ \A k \in 1..Len(weak_words) :
              Contains(Lower(candidate), weak_words[k]) => WordTag(weak_words[k]) \in Tags
        /\ \A i \in 1..Len(candidate) :
              YearAt(candidate, i) => YearTag(SubSeq(candidate, i, i + 3)) \in Tags

\* C13: a value and its lower-case form, which differ only in letter case, get
\* the same tags.
C13_CaseInsensitive ==
    weak_tags.called => weak_tags.tags = detect_weak_patterns(Lower(candidate))

\* ================================================= the engine on long and short secrets

\* Largest number of items in one input of the statistics runs.
MaxStatsItems == 2

\* Largest number of fields over all the items of such an input.
MaxStatsFields == 2

\* CONCEALED fields: a long value with a weak word, a long and a short value
\* with no listed pattern, an empty value, no value at all.
StatsFieldSet ==
    {[type |-> "CONCEALED", value |-> JStr(LongWeak)],
     [type |-> "CONCEALED", value |-> JStr(Strong16)],
     [type |-> "CONCEALED", value |-> JStr(ShortClean)],
     [type |-> "CONCEALED", value |-> JStr(<< >>)],
     [type |-> "CONCEALED"]}

\* The keys of an item other than its fields: no id, an id, an id that reads
\* like a synthetic one, an id and a category.
StatsItemHeads ==
    {<< >>,
     [id |-> "A"],
     [id |-> "unknown_1"],
     [id |-> "A", category |-> "LOGIN"]}

StatsElementsWith(k) ==
    {JObject(IF DOMAIN head = {} THEN [fields |-> fs] ELSE head @@ [fields |-> fs]) :
        head \in StatsItemHeads, fs \in [1..k -> StatsFieldSet]}

InitStats ==
    /\ json_input = [parses |-> TRUE, data |-> [kind |-> "list", elems |-> << >>]]
    /\ EngineStart
    /\ args = NoArgs
    /\ CliStart
    /\ PatternStart

\* The user adds one more item to the array in the input box.
EditStatsInput ==
    /\ pc = "input"
    /\ Len(json_input.data.elems) < MaxStatsItems
    /\ \E k \in 0..(MaxStatsFields
                    - FieldCount(json_input.data.elems, Len(json_input.data.elems))) :
          \E e \in StatsElementsWith(k) :
             json_input' = [json_input EXCEPT !.data.elems = Append(@, e)]
    /\ UNCHANGED <<pc, result, audit>>
    /\ UNCHANGED <<CliVars, PatternVars>>

NextStats == EditStatsInput \/ RunAudit

SpecStats == InitStats /\ [][NextStats]_vars

\* The statistics were produced.
StatsShown == pc = "audited" /\ audit.report = "llm_report"

\* The analysed secrets of the input that are short or carry a weakness tag.
WeakPositions ==
    {p \in SecretPositions :
        Len(RawValue(p)) < 15 \/ detect_weak_patterns(RawValue(p)) # << >>}

\* C14: the weak-password count of the summary is the number of analysed secrets
\* that are shorter than 15 or carry a weakness tag.
C14_WeakPasswordCount ==
    StatsShown => audit.stats.weak_passwords = Cardinality(WeakPositions)

\* C14's case: a summary over a long secret that is weak by its tags and a
\* CONCEALED field that is not counted.
C14_Witness ==
    /\ StatsShown
    /\ \E p \in WeakPositions : Len(RawValue(p)) >= 15
    /\ InputFieldPositions \ WeakPositions # {}

\* The same sequence in the opposite order.
Reverse(seq) == [i \in 1..Len(seq) |-> seq[Len(seq) + 1 - i]]

\* The input with the same items in the opposite order.
ReorderedInput == [json_input EXCEPT !.data.elems = Reverse(@)]

\* Every item of the input carries an id of its own choosing.
AllIdsSupplied == \A n \in 1..Len(InputItems) : "id" \in DOMAIN InputItems[n].obj

\* C15: the same items in another order give the same processed item for each
\* item (its id, its is_duplicate marks and duplicate ids) and the same summary,
\* category rows included.  (Stated for inputs whose items all carry an id.)
C15_OrderIndependent ==
    (StatsShown /\ AllIdsSupplied) =>
        LET r == sanitize_json_input(ReorderedInput)
        IN  /\ r.items = Reverse(result.items)
            /\ generate_stats(r.items) = audit.stats

\* The positions of the CONCEALED fields whose value is empty or missing.
EmptySecretPositions ==
    {p \in InputFieldPositions :
        /\ Get(InputField(p), "type", None) = "CONCEALED"
        /\ Get(InputField(p), "value", JStr(<< >>)) = JStr(<< >>)}

\* C19: a CONCEALED field whose value is empty or missing is processed without
\* error into a field with neither password_analysis nor value, is not marked a
\* duplicate, and is not among the passwords the summary counts.
C19_EmptySecretSkipped ==
    (pc = "audited" /\ EmptySecretPositions # {}) =>
        /\ result.error = ""
        /\ \A p \in EmptySecretPositions :
              /\ "password_analysis" \notin DOMAIN OutputField(p)
              /\ "value" \notin DOMAIN OutputField(p)
              /\ ~IsMarkedDuplicate(p)
        /\ StatsShown =>
              /\ audit.stats.passwords_analysed = Cardinality(SecretPositions)
              /\ audit.stats.weak_passwords <= Cardinality(SecretPositions)
              /\ (SecretPositions = {} => audit.stats.duplicate_groups = 0)

\* C19's case: a summary over two items, one with an empty CONCEALED value and
\* one with no value at all.
C19_Witness ==
    /\ StatsShown
    /\ \E p \in EmptySecretPositions : \E q \in EmptySecretPositions :
          /\ p[1] # q[1]
          /\ "value" \in DOMAIN InputField(p)
          /\ "value" \notin DOMAIN InputField(q)

\* The input items that carry no id.
ItemsLackingId == {n \in 1..Len(InputItems) : "id" \notin DOMAIN InputItems[n].obj}

\* C20: the id given to an item that lacks one differs from the id of every
\* other item returned by the same call.
C20_SyntheticIdsDistinct ==
    (pc = "audited" /\ result.error = "") =>
        \A n \in ItemsLackingId :
            \A m \in 1..Len(result.items) : m # n => result.items[m].id # result.items[n].id

\* ========================================================== the report of run_audit

\* Largest number of issues in one reply of the language model.
MaxFindings == 3

\* The issues a reply may list, each with its severity, item and rule.
FindingSet ==
    {[severity |-> "Critical", itemId |-> "A", ruleId |-> "password.duplicate"],
     [severity |-> "High",     itemId |-> "A", ruleId |-> "fields.missing"],
     [severity |-> "High",     itemId |-> "A", ruleId |-> "tags.missing_scope"],
     [severity |-> "High",     itemId |-> "B", ruleId |-> "fields.missing"],
     [severity |-> "Medium",   itemId |-> "B", ruleId |-> "naming.scope_prefix"],
     [severity |-> "Low",      itemId |-> "A", ruleId |-> "password.weak"]}

\* response.choices[0].message.content: what the model answers, read as the
\* issues it lists, in the order it lists them (no issue twice, at most n).
RECURSIVE Replies(_)
Replies(n) ==
    IF n = 0 THEN {<< >>}
    ELSE LET shorter == Replies(n - 1)
         IN  shorter \cup
             UNION {{Append(r, f) : f \in FindingSet \ {r[k] : k \in 1..Len(r)}} :
                       r \in {q \in shorter : Len(q) = n - 1}}

InitReport ==
    /\ json_input \in {[parses |-> TRUE,
                        data   |-> [kind |-> "list", elems |-> <<JObject(it)>>]] :
                          it \in ItemsWith(0)}
    /\ EngineStart
    /\ args = NoArgs
    /\ CliStart
    /\ PatternStart

\* A click on the audit button, with the text of the report: lines 283-298 return
\* the content of the reply as it came.
RunAuditWithReply ==
    /\ pc = "input"
    /\ result' = sanitize_json_input(json_input)
    /\ \E has_token \in BOOLEAN, api_ok \in BOOLEAN, reply \in Replies(MaxFindings) :
          LET a == run_audit(result', has_token, api_ok)
          IN  audit' = IF a.report = "llm_report" THEN a @@ [content |-> reply] ELSE a
    /\ pc' = "audited"
    /\ UNCHANGED json_input
    /\ UNCHANGED <<CliVars, PatternVars>>

NextReport == RunAuditWithReply

SpecReport == InitReport /\ [][NextReport]_vars

SeverityRank(severity) ==
    CASE severity = "Critical" -> 4 [] severity = "High" -> 3 [] severity = "Medium" -> 2
      [] severity = "Low" -> 1 [] severity = "Info" -> 0

\* The place of a string in the ascending order of the strings used here.
StringRank(str) ==
    CASE str = "A" -> 1 [] str = "B" -> 2
      [] str = "fields.missing" -> 1 [] str = "naming.scope_prefix" -> 2
      [] str = "password.duplicate" -> 3 [] str = "password.weak" -> 4
      [] str = "tags.missing_scope" -> 5

\* f may come before g: higher severity, or the same severity and a smaller
\* itemId, or both the same and a ruleId that is not larger.
MayPrecede(f, g) ==
    \/ SeverityRank(f.severity) > SeverityRank(g.severity)
    \/ /\ f.severity = g.severity
       /\ \/ StringRank(f.itemId) < StringRank(g.itemId)
          \/ f.itemId = g.itemId /\ StringRank(f.ruleId) <= StringRank(g.ruleId)

\* C16: the issues of the report handed to the caller are in non-increasing
\* severity, ties broken by itemId and then ruleId, whatever order they were
\* produced in.
C16_FindingsOrdered ==
    (pc = "audited" /\ audit.report = "llm_report") =>
        \A k \in 1..(Len(audit.content) - 1) :
            MayPrecede(audit.content[k], audit.content[k + 1])

\* ================================================================ main's claims

\* C17: every call of export_vault with secrets revealed was made after the
\* confirmation prompt was answered "sim", and no vault is exported after any
\* other answer.
C17_RevealOnlyAfterConfirmation ==
    /\ \A k \in 1..Len(exports) :
          exports[k].include_secrets => exports[k].confirm = "sim"
    /\ confirm = "nao" => exports = << >>

\* C18: the model audit_with_ollama is called with is one the latest
\* check_ollama_model call for it reported present.
C18_OllamaModelChecked ==
    ollama_call.written => last_check[ollama_call.model] = "present"

====
